---- MODULE Spec2Model ----
(***************************************************************************)
(* State-machine model of the tier list maker (src/App.tsx,                *)
(* src/components/TierRow.tsx, src/unnamed/part_000 = constants.ts).       *)
(*                                                                         *)
(* rows  is the Tier Registry  (React state `rows`,  App.tsx:44)           *)
(* items is the Partition Store (React state `items`, App.tsx:45)          *)
(*                                                                         *)
(* A TierImage {id, src} is represented by its id: src is assigned at      *)
(* import and no handler reads or writes it afterwards.  Array indexes are *)
(* 0-based as in the source; -1 is findIndex's "not found".                *)
(***************************************************************************)
EXTENDS Integers, Sequences, FiniteSets, TLC

(* ------------------------------ bounds -------------------------------- *)
\* total number of image files the user imports
MaxItems == 3
\* largest number of files selected in one import dialog
MaxBatch == 2
\* number of tiers the user adds with "Add Tier"
MaxNewRows == 1
\* number of tier edits (add, delete, label/color edit, tier reorder)
MaxTierOps == 1
\* number of backup files the user uploads
MaxUploads == 1
\* exploration budget: an imported file costs 2, a tier edit costs 4
MaxWork == 8

(* ---------------------------- constants ------------------------------- *)
UNRANKED_ID == "unranked"
ROW == "row"
IMAGE == "image"
\* data.current?.type of a droppable registered without data (the bank)
NoType == "none"

\* JavaScript null / undefined
Null == "<null>"
Undefined == "<undefined>"
UndefinedRow == [id |-> Undefined, label |-> Undefined, color |-> Undefined]

DefaultRows ==
  << [id |-> "S", label |-> "S", color |-> "#ff7f7f"],
     [id |-> "A", label |-> "A", color |-> "#ffbf7f"],
     [id |-> "B", label |-> "B", color |-> "#ffff7f"],
     [id |-> "C", label |-> "C", color |-> "#7fff7f"],
     [id |-> "D", label |-> "D", color |-> "#7fbfff"] >>

RowIds(rws) == {rws[i].id : i \in 1..Len(rws)}

DefaultItems == [k \in RowIds(DefaultRows) \cup {UNRANKED_ID} |-> << >>]

DEFAULT_STATE == [rows |-> DefaultRows, items |-> DefaultItems]

\* label typed into a tier's textarea, color picked from DEFAULT_COLORS
NewLabels == {"Z"}
NewColors == {"#ffffff"}

\* crypto.randomUUID(): the n-th id generated for an image / for a tier
ItemId(n) == "img-" \o ToString(n)
NewRowId(n) == "new-row-" \o ToString(n)

(* ------------------------- array primitives --------------------------- *)
Range(s) == {s[i] : i \in 1..Len(s)}

\* Array.prototype.findIndex(item => item.id === id) on an array of items
FindIndex(arr, id) ==
  IF \E i \in 1..Len(arr) : arr[i] = id
  THEN (CHOOSE i \in 1..Len(arr) : arr[i] = id /\ \A j \in 1..(i-1) : arr[j] # id) - 1
  ELSE -1

\* rows.findIndex(row => row.id === id)
FindRowIndex(rws, id) ==
  IF \E i \in 1..Len(rws) : rws[i].id = id
  THEN (CHOOSE i \in 1..Len(rws) : rws[i].id = id /\ \A j \in 1..(i-1) : rws[j].id # id) - 1
  ELSE -1

\* the index Array.prototype.splice starts at
SpliceStart(len, start) ==
  IF start < 0 THEN (IF len + start < 0 THEN 0 ELSE len + start)
  ELSE (IF start > len THEN len ELSE start)

\* arr.splice(start, 1): what is left, and element [0] of what is returned
SpliceOut(arr, start, undef) ==
  LET s == SpliceStart(Len(arr), start) IN
  IF s < Len(arr)
  THEN [rest |-> SubSeq(arr, 1, s) \o SubSeq(arr, s + 2, Len(arr)), removed |-> arr[s + 1]]
  ELSE [rest |-> arr, removed |-> undef]

\* arr.splice(start, 0, x)
SpliceIn(arr, start, x) ==
  LET s == SpliceStart(Len(arr), start) IN
  SubSeq(arr, 1, s) \o <<x>> \o SubSeq(arr, s + 1, Len(arr))

\* arrayMove(array, from, to) of @dnd-kit/sortable:
\*   newArray = array.slice();
\*   newArray.splice(to < 0 ? newArray.length + to : to, 0, newArray.splice(from, 1)[0]);
\* (the target index is evaluated before the element is taken out)
ArrayMove(arr, from, to, undef) ==
  LET target == IF to < 0 THEN Len(arr) + to ELSE to
      out == SpliceOut(arr, from, undef)
  IN  SpliceIn(out.rest, target, out.removed)

(* ------------------------------ state --------------------------------- *)
VARIABLES
  rows,      \* useState rows: sequence of [id, label, color]
  items,     \* useState items: container id -> sequence of item ids
  activeId,  \* useState activeId: Null or the id being dragged
  active,    \* DndContext's active draggable: [id, type], or NoDrag
  pending,   \* image imports whose file reads have not completed yet
  nItems,    \* number of image ids generated so far
  nRows,     \* number of tier ids generated so far
  storage,   \* localStorage: the documents under LOCAL_STORAGE_KEY, none or one
  saved,     \* history: the rows and items that the stored document was written from
  defaultState, \* the module-level object DEFAULT_STATE as it is now
  shared,    \* keys of items whose array is the array DEFAULT_STATE.items holds
  reading,   \* backup files whose FileReader has not fired onload yet
  threw,     \* an uncaught TypeError was raised
  imported,  \* history: ids of all items whose import completed
  tierOps,   \* history: number of tier edits done; above MaxTierOps after Reset
  nUploads,  \* history: number of backup files chosen
  last       \* history: the operation that produced this state

vars == <<rows, items, activeId, active, pending, nItems, nRows, storage, saved,
          defaultState, shared, reading, threw, imported, tierOps, nUploads, last>>

\* history record: the operation, and the items a deleteTier migrated or what
\* a reset discarded
Did(op) == [op |-> op, arg |-> << >>]

NoDrag == [id |-> Null, type |-> NoType]
NoOver == [id |-> Null, type |-> NoType]

(* ------------------------- objects and copies ------------------------- *)
\* A copy is described by its value and by the keys of its items whose array
\* is the very array the original holds.  Only the arrays of items matter:
\* the program changes no array of tiers and no tier or item object in place
\* (map, filter, arrayMove and the spreads build new ones), while splice and
\* push of the cross-container updater change an array of items in place.

\* faulty copy: the copy holds the arrays of the original
StructuredCloneKeepsArrays(state) == [copy |-> state, shared |-> DOMAIN state.items]

\* structuredClone(value): a deep copy, nothing of the original is in it
StructuredClone(state) == [copy |-> state, shared |-> {}]

\* the arrays DEFAULT_STATE.items holds after an updater returned the store
\* its: an array that items shares with it has the content items has for it
DefaultItemsSeenThrough(def, shr, its) ==
  [k \in DOMAIN def.items |-> IF k \in shr /\ k \in DOMAIN its THEN its[k] ELSE def.items[k]]

Init ==
  /\ rows = StructuredClone(DEFAULT_STATE).copy.rows
  /\ items = StructuredClone(DEFAULT_STATE).copy.items
  /\ defaultState = DEFAULT_STATE
  /\ shared = StructuredClone(DEFAULT_STATE).shared
  /\ activeId = Null
  /\ active = NoDrag
  /\ pending = {}
  /\ nItems = 0
  /\ nRows = 0
  /\ storage = {}
  /\ saved = {}
  /\ reading = {}
  /\ threw = FALSE
  /\ imported = {}
  /\ tierOps = 0
  /\ nUploads = 0
  /\ last = Did("init")

(* ------------------------- Container Resolver ------------------------- *)
\* faulty resolver: the bank is not recognised as a container
findContainerRowsOnly(rws, its, id) ==
  IF \E i \in 1..Len(rws) : rws[i].id = id
  THEN id
  ELSE IF \E c \in DOMAIN its : \E i \in 1..Len(its[c]) : its[c][i] = id
       THEN CHOOSE c \in DOMAIN its : \E i \in 1..Len(its[c]) : its[c][i] = id
       ELSE Null

\* faulty resolver: only the bank is searched for the item
findContainerBankOnly(rws, its, id) ==
  IF id = UNRANKED_ID \/ \E i \in 1..Len(rws) : rws[i].id = id
  THEN id
  ELSE IF \E i \in 1..Len(its[UNRANKED_ID]) : its[UNRANKED_ID][i] = id
       THEN UNRANKED_ID
       ELSE Null

\* findContainer(id), reading the rows and items of the current render
findContainer(rws, its, id) ==
  IF id = UNRANKED_ID \/ \E i \in 1..Len(rws) : rws[i].id = id
  THEN id
  ELSE IF \E c \in DOMAIN its : \E i \in 1..Len(its[c]) : its[c][i] = id
       THEN CHOOSE c \in DOMAIN its : \E i \in 1..Len(its[c]) : its[c][i] = id
       ELSE Null

(* --------------------------- state updaters --------------------------- *)
\* setRows(prev => [...prev, newRow])
AddRowRows(prev, newId) ==
  Append(prev, [id |-> newId, label |-> "New Tier", color |-> "#4a4a4a"])

\* faulty addTier: the container entry is not created
AddRowItemsNoKey(prev, newId) == prev

\* setItems(prev => ({ ...prev, [newId]: [] }))
AddRowItems(prev, newId) ==
  [k \in DOMAIN prev \cup {newId} |-> IF k = newId THEN << >> ELSE prev[k]]

\* faulty updateTier: the edited tier is moved to the top
UpdateRowRowsToTop(prev, id, newLabel, newColor) ==
  SelectSeq([i \in 1..Len(prev) |->
               [id |-> prev[i].id, label |-> newLabel, color |-> newColor]],
            LAMBDA r : r.id = id)
    \o SelectSeq(prev, LAMBDA r : r.id # id)

\* setRows(prev => prev.map(row => row.id === id ? {...row, label, color} : row))
UpdateRowRows(prev, id, newLabel, newColor) ==
  [i \in 1..Len(prev) |->
     IF prev[i].id = id
     THEN [id |-> prev[i].id, label |-> newLabel, color |-> newColor]
     ELSE prev[i]]

\* setRows(prev => prev.filter(row => row.id !== id))
DeleteRowRows(prev, id) == SelectSeq(prev, LAMBDA r : r.id # id)

\* faulty deleteTier: the tier's items are put in front of the bank's
DeleteRowItemsPrepends(prev, id) ==
  LET itemsToMove == IF id \in DOMAIN prev THEN prev[id] ELSE << >>
      merged == [prev EXCEPT ![UNRANKED_ID] = itemsToMove \o prev[UNRANKED_ID]]
  IN  [k \in DOMAIN merged \ {id} |-> merged[k]]

\* faulty deleteTier: the items of the other tiers are dropped
DeleteRowItemsEmptiesTiers(prev, id) ==
  LET itemsToMove == IF id \in DOMAIN prev THEN prev[id] ELSE << >> IN
  [k \in DOMAIN prev \ {id} |->
     IF k = UNRANKED_ID THEN prev[UNRANKED_ID] \o itemsToMove ELSE << >>]

\* the setItems updater of handleDeleteRow; prev has the UNRANKED key
DeleteRowItems(prev, id) ==
  LET itemsToMove == IF id \in DOMAIN prev THEN prev[id] ELSE << >>
      merged == [prev EXCEPT ![UNRANKED_ID] = prev[UNRANKED_ID] \o itemsToMove]
  IN  [k \in DOMAIN merged \ {id} |-> merged[k]]

\* faulty import: the bank is overwritten by the imported items
ImageUploadItemsOverwrites(prev, newImages) ==
  [prev EXCEPT ![UNRANKED_ID] = newImages]

\* setItems(prev => ({...prev, [UNRANKED_ID]: [...prev[UNRANKED_ID], ...newImages]}))
ImageUploadItems(prev, newImages) ==
  [prev EXCEPT ![UNRANKED_ID] = prev[UNRANKED_ID] \o newImages]

\* faulty tier reorder: the two tiers trade places
ReorderRowsSwaps(prev, aid, oid) ==
  LET i == FindRowIndex(prev, aid) + 1
      j == FindRowIndex(prev, oid) + 1
  IN  [k \in 1..Len(prev) |-> IF k = i THEN prev[j] ELSE IF k = j THEN prev[i] ELSE prev[k]]

\* setRows(rows => arrayMove(rows, oldIndex, newIndex))
ReorderRows(prev, aid, oid) ==
  ArrayMove(prev, FindRowIndex(prev, aid), FindRowIndex(prev, oid), UndefinedRow)

\* faulty within-container reorder: the two items trade places
MoveWithinItemsSwaps(prev, ac, ai, oi) ==
  [prev EXCEPT ![ac] = [k \in 1..Len(prev[ac]) |->
     IF k = ai + 1 THEN prev[ac][oi + 1]
     ELSE IF k = oi + 1 THEN prev[ac][ai + 1] ELSE prev[ac][k]]]

\* setItems(prev => ({...prev, [activeContainer]: arrayMove(prev[activeContainer], ai, oi)}))
MoveWithinItems(prev, ac, ai, oi) ==
  [prev EXCEPT ![ac] = ArrayMove(prev[ac], ai, oi, Undefined)]

\* What the cross-container updater leaves in prev.  newItems = {...prev}
\* copies the keys, not the arrays: newItems[activeContainer] and
\* newItems[overContainer] are the arrays prev holds, and splice and push
\* change them in place.  No key is added, so prev ends up with the sequences
\* of the store the updater returns (MoveAcrossItems, below).
PrevAfterMoveAcross(prev, returned) == [k \in DOMAIN prev |-> returned[k]]

\* faulty cross-container move: the item always goes to the end
MoveAcrossItemsAppends(prev, ac, oc, aid, oid, overIsContainer) ==
  [prev EXCEPT ![ac] = SelectSeq(prev[ac], LAMBDA x : x # aid),
               ![oc] = Append(prev[oc], aid)]

\* faulty cross-container move: the item is not taken out of its source
MoveAcrossItemsKeepsSource(prev, ac, oc, aid, oid, overIsContainer) ==
  [prev EXCEPT ![oc] = Append(prev[oc], aid)]

\* the setItems updater of the cross-container branch; prev has both keys
MoveAcrossItems(prev, ac, oc, aid, oid, overIsContainer) ==
  LET activeIndex == FindIndex(prev[ac], aid)
      out == SpliceOut(prev[ac], activeIndex, Undefined)
      taken == [prev EXCEPT ![ac] = out.rest]
      movedItem == out.removed
      overIndex == FindIndex(taken[oc], oid)
  IN  IF overIsContainer
      THEN [taken EXCEPT ![oc] = Append(taken[oc], movedItem)]
      ELSE IF overIndex # -1
           THEN [taken EXCEPT ![oc] = SpliceIn(taken[oc], overIndex, movedItem)]
           ELSE [taken EXCEPT ![oc] = Append(taken[oc], movedItem)]

(* --------------------- what the user can act on ----------------------- *)
\* containers the page renders: one TierRow per row, and the ImageBank
Rendered(rws, its) == (RowIds(rws) \cup {UNRANKED_ID}) \cap DOMAIN its

\* ids of the SortableImage components on the page
RenderedImages(rws, its) == UNION {Range(its[c]) : c \in Rendered(rws, its)}

\* useSortable({id: row.id, data: {type: ROW}}), useSortable({id: image.id, data: {type: 'image'}})
Draggables(rws, its) ==
  {[id |-> r, type |-> ROW] : r \in RowIds(rws)}
    \cup {[id |-> i, type |-> IMAGE] : i \in RenderedImages(rws, its)}

\* the sortables above, and useDroppable({id: UNRANKED_ID}) of the ImageBank
Droppables(rws, its) ==
  Draggables(rws, its) \cup {[id |-> UNRANKED_ID, type |-> NoType]}

(* ------------------------------ actions ------------------------------- *)
Idle == ~threw /\ active = NoDrag

\* the bounds leave room for one more tier edit
TierOpAllowed == tierOps < MaxTierOps /\ 2 * nItems + 4 * (tierOps + 1) <= MaxWork

\* handleImageUpload up to the await: n files chosen, their ids generated
HandleImageUpload(n) ==
  /\ Idle
  /\ nItems + n <= MaxItems
  /\ 2 * (nItems + n) + 4 * tierOps <= MaxWork
  /\ pending' = pending \cup {[i \in 1..n |-> ItemId(nItems + i)]}
  /\ nItems' = nItems + n
  /\ last' = Did("importStart")
  /\ UNCHANGED <<rows, items, activeId, active, nRows, storage, saved, defaultState, shared, threw, imported, tierOps, reading, nUploads>>

\* handleImageUpload after the await: all reads of one import are done
ImageUploadDone(newImages) ==
  /\ ~threw
  /\ newImages \in pending
  /\ pending' = pending \ {newImages}
  /\ IF UNRANKED_ID \in DOMAIN items
     THEN /\ items' = ImageUploadItems(items, newImages)
          /\ shared' = shared \ {UNRANKED_ID}
          /\ imported' = imported \cup Range(newImages)
          /\ UNCHANGED threw
     ELSE /\ threw' = TRUE
          /\ UNCHANGED <<items, shared, imported>>
  /\ last' = Did("importItems")
  /\ UNCHANGED <<rows, activeId, active, nItems, nRows, storage, saved, defaultState, tierOps, reading, nUploads>>

\* handleAddRow: both setState calls are applied in one render
HandleAddRow ==
  /\ Idle
  /\ nRows < MaxNewRows
  /\ TierOpAllowed
  /\ LET newId == NewRowId(nRows + 1) IN
       /\ rows' = AddRowRows(rows, newId)
       /\ items' = AddRowItems(items, newId)
  /\ nRows' = nRows + 1
  /\ tierOps' = tierOps + 1
  /\ last' = Did("addTier")
  /\ UNCHANGED <<activeId, active, pending, nItems, storage, saved, defaultState, shared, threw, imported, reading, nUploads>>

\* handleUpdateRow(id, newLabel, newColor)
HandleUpdateRow(id, newLabel, newColor) ==
  /\ Idle
  /\ TierOpAllowed
  /\ rows' = UpdateRowRows(rows, id, newLabel, newColor)
  /\ tierOps' = tierOps + 1
  /\ last' = Did("updateTier")
  /\ UNCHANGED <<items, activeId, active, pending, nItems, nRows, storage, saved, defaultState, shared, threw, imported, reading, nUploads>>

\* TierRow's handleLabelChange: onUpdateRow(row.id, e.target.value, row.color)
HandleLabelChange(i, newLabel) ==
  /\ i \in 1..Len(rows)
  /\ HandleUpdateRow(rows[i].id, newLabel, rows[i].color)

\* TierRow's handleColorChange: onUpdateRow(row.id, row.label, color)
HandleColorChange(i, newColor) ==
  /\ i \in 1..Len(rows)
  /\ HandleUpdateRow(rows[i].id, rows[i].label, newColor)

\* handleDeleteRow(id)
HandleDeleteRow(id) ==
  /\ Idle
  /\ TierOpAllowed
  /\ rows' = DeleteRowRows(rows, id)
  /\ IF UNRANKED_ID \in DOMAIN items
     THEN /\ items' = DeleteRowItems(items, id)
          /\ shared' = shared \ {UNRANKED_ID, id}
          /\ UNCHANGED threw
     ELSE threw' = TRUE /\ UNCHANGED <<items, shared>>
  /\ tierOps' = tierOps + 1
  /\ last' = [op |-> "deleteTier", arg |-> IF id \in DOMAIN items THEN items[id] ELSE << >>]
  /\ UNCHANGED <<activeId, active, pending, nItems, nRows, storage, saved, defaultState, imported, reading, nUploads>>

\* the trash button of a TierRow: onDeleteRow(row.id)
ClickDelete(i) ==
  /\ i \in 1..Len(rows)
  /\ HandleDeleteRow(rows[i].id)

\* faulty dragStart: the dragged item is taken out of its container at once
HandleDragStartDetaches(a) ==
  /\ Idle
  /\ a \in Draggables(rows, items)
  /\ activeId' = a.id
  /\ active' = a
  /\ items' = [c \in DOMAIN items |-> SelectSeq(items[c], LAMBDA x : x # a.id)]
  /\ last' = Did("dragStart")
  /\ UNCHANGED <<rows, pending, nItems, nRows, storage, saved, defaultState, shared, threw, imported, tierOps, reading, nUploads>>

\* handleDragStart: setActiveId(event.active.id)
HandleDragStart(a) ==
  /\ Idle
  /\ a \in Draggables(rows, items)
  /\ activeId' = a.id
  /\ active' = a
  /\ last' = Did("dragStart")
  /\ UNCHANGED <<rows, items, pending, nItems, nRows, storage, saved, defaultState, shared, threw, imported, tierOps, reading, nUploads>>

\* the IMAGE branch of handleDragEnd: the store it sets, or a TypeError
ItemDrop(rws, its, act, over) ==
  LET activeContainer == findContainer(rws, its, act.id)
      overContainer == findContainer(rws, its, over.id)
      same == [threw |-> FALSE, items |-> its, kind |-> "dragEnd:same"]
      fail == [threw |-> TRUE, items |-> its, kind |-> "dragEnd:threw"]
  IN  IF activeContainer = Null \/ overContainer = Null \/ activeContainer = overContainer
      THEN IF activeContainer # Null
           THEN IF activeContainer \notin DOMAIN its
                THEN fail
                ELSE LET activeIndex == FindIndex(its[activeContainer], act.id)
                         overIndex == FindIndex(its[activeContainer], over.id)
                     IN  IF activeIndex # -1 /\ overIndex # -1 /\ activeIndex # overIndex
                         THEN [threw |-> FALSE,
                               items |-> MoveWithinItems(its, activeContainer, activeIndex, overIndex),
                               kind |-> "dragEnd:within"]
                         ELSE same
           ELSE same
      ELSE IF activeContainer \notin DOMAIN its \/ overContainer \notin DOMAIN its
           THEN fail
           ELSE [threw |-> FALSE,
                 items |-> MoveAcrossItems(its, activeContainer, overContainer, act.id, over.id,
                                           findContainer(rws, its, over.id) = over.id),
                 kind |-> IF findContainer(rws, its, over.id) = over.id
                          THEN "dragEnd:onContainer" ELSE "dragEnd:onItem"]

\* faulty dispatch: only the dragged entity's kind is looked at
IsRowDragActiveOnly(act, over) == act.type = ROW

\* active.data.current?.type === ROW && over.data.current?.type === ROW
IsRowDrag(act, over) == act.type = ROW /\ over.type = ROW

\* handleDragEnd({active, over})
HandleDragEnd(over) ==
  /\ ~threw
  /\ active # NoDrag
  /\ IF over = NoOver
     THEN /\ activeId' = Null
          /\ last' = Did("dragEnd:none")
          /\ UNCHANGED <<rows, items, threw, tierOps, defaultState, shared>>
     ELSE IF IsRowDrag(active, over)
     THEN IF active.id # over.id
          THEN /\ TierOpAllowed
               /\ rows' = ReorderRows(rows, active.id, over.id)
               /\ tierOps' = tierOps + 1
               /\ activeId' = Null
               /\ last' = Did("dragEnd:rows")
               /\ UNCHANGED <<items, threw, defaultState, shared>>
          ELSE /\ activeId' = Null
               /\ last' = Did("dragEnd:same")
               /\ UNCHANGED <<rows, items, threw, tierOps, defaultState, shared>>
     ELSE IF active.type = IMAGE
     THEN LET drop == ItemDrop(rows, items, active, over) IN
            /\ items' = drop.items
            /\ threw' = drop.threw
            /\ activeId' = IF drop.threw THEN activeId ELSE Null
            /\ last' = Did(drop.kind)
            /\ IF drop.kind = "dragEnd:within"
               THEN \* arrayMove returns a new array for the container
                    /\ shared' = {k \in shared : drop.items[k] = items[k]}
                    /\ UNCHANGED defaultState
               ELSE IF drop.kind \in {"dragEnd:onContainer", "dragEnd:onItem"}
               THEN \* splice and push work on the arrays prev holds
                    /\ defaultState' = [defaultState EXCEPT
                           !.items = DefaultItemsSeenThrough(defaultState, shared, drop.items)]
                    /\ UNCHANGED shared
               ELSE UNCHANGED <<defaultState, shared>>
            /\ UNCHANGED <<rows, tierOps>>
     ELSE /\ activeId' = Null
          /\ last' = Did("dragEnd:ignored")
          /\ UNCHANGED <<rows, items, threw, tierOps, defaultState, shared>>
  /\ active' = NoDrag
  /\ UNCHANGED <<pending, nItems, nRows, storage, saved, imported, reading, nUploads>>

\* handleDragEnd when the dragged component was unmounted during the gesture
\* (a restore took its tier or item away) and DndContext has rendered since:
\* event.active then carries no data, active.data.current?.type is undefined
\* and neither branch is taken.  Until DndContext renders again the data of
\* dragStart is still delivered, which is HandleDragEnd.
HandleDragEndNoData ==
  /\ ~threw
  /\ active # NoDrag
  /\ \A d \in Draggables(rows, items) : d.id # active.id
  /\ activeId' = Null
  /\ active' = NoDrag
  /\ last' = Did("dragEnd:ignored")
  /\ UNCHANGED <<rows, items, pending, nItems, nRows, storage, saved, defaultState, shared, threw,
                 imported, tierOps, reading, nUploads>>

\* clearStateAndStorage
ClearStateAndStorage ==
  /\ storage' = {}
  /\ saved' = {}
  /\ LET clone == StructuredClone(defaultState) IN
       /\ rows' = clone.copy.rows
       /\ items' = clone.copy.items
       /\ shared' = clone.shared
  /\ UNCHANGED defaultState

\* history of a reset: whether a tier held items, whether a default tier had
\* been deleted
ResetDiscards(rws, its) ==
  (IF \E c \in Rendered(rws, its) \ {UNRANKED_ID} : its[c] # << >>
   THEN <<"ranked items">> ELSE << >>)
    \o (IF RowIds(DEFAULT_STATE.rows) \subseteq RowIds(rws)
        THEN << >> ELSE <<"deleted tier">>)

\* resetState: window.confirm, then clearStateAndStorage.  The Reset button
\* is pressed once, and no tier is edited afterwards.
ResetState(confirmed) ==
  /\ Idle
  /\ tierOps <= MaxTierOps
  /\ IF confirmed
     THEN ClearStateAndStorage /\ imported' = {}
     ELSE UNCHANGED <<rows, items, storage, saved, defaultState, shared, imported>>
  /\ tierOps' = MaxTierOps + 1
  /\ last' = [op |-> IF confirmed THEN "reset" ELSE "reset:declined",
              arg |-> ResetDiscards(rows, items)]
  /\ UNCHANGED <<activeId, active, pending, nItems, nRows, threw, reading, nUploads>>

(* ------------------------------ snapshots ----------------------------- *)
\* A JSON text is represented by its syntax tree.  valid: the text is JSON.
\* savedRows / savedItems: the member of that name, t being its JSON type
\* ("absent" when the top-level object has no such member) and v its content.
\* A TierImage is written as {id, src} and is represented by its id.
NullRow == [id |-> Null, label |-> Null, color |-> Null]
NoMember == [t |-> "absent", v |-> << >>]

\* faulty encoder: containers that hold nothing are left out of the document
JSONstringifyDropsEmpty(rws, its) ==
  [valid |-> TRUE,
   savedRows |-> [t |-> "array", v |-> rws],
   savedItems |-> [t |-> "object",
                   v |-> [k \in {c \in DOMAIN its : its[c] # << >>} |-> its[k]]]]

\* JSON.stringify({ savedRows: rows, savedItems: items }): an array element
\* that is undefined is written as null
JSONstringify(rws, its) ==
  [valid |-> TRUE,
   savedRows |-> [t |-> "array",
                  v |-> [i \in 1..Len(rws) |->
                           IF rws[i] = UndefinedRow THEN NullRow ELSE rws[i]]],
   savedItems |-> [t |-> "object",
                   v |-> [k \in DOMAIN its |->
                            [i \in 1..Len(its[k]) |->
                               IF its[k][i] = Undefined THEN Null ELSE its[k][i]]]]]

\* JSON.parse(text): a SyntaxError, or the value with its two members
JSONparse(text) ==
  [threw |-> ~text.valid, savedRows |-> text.savedRows, savedItems |-> text.savedItems]

\* JavaScript truthiness of a member: undefined and null are falsy, every
\* array and every object (empty ones too) and true are truthy
Truthy(member) == member.t \notin {"absent", "null"}

\* the first render after setRows(savedRows): rows.map(...) exists on arrays only
RenderThrows(savedRows) == savedRows.t # "array"

\* handleSave: localStorage.setItem(LOCAL_STORAGE_KEY, JSON.stringify(...))
HandleSave ==
  /\ Idle
  /\ storage' = {JSONstringify(rows, items)}
  /\ saved' = {[rows |-> rows, items |-> items]}
  /\ last' = Did("save")
  /\ UNCHANGED <<rows, items, activeId, active, pending, nItems, nRows, reading,
                 threw, imported, tierOps, nUploads, defaultState, shared>>

\* The page is loaded again: useState initialisers, then the load effect.
\* File reads of the page that went away are never delivered.
PageLoad ==
  /\ Idle
  /\ LET data == JSONparse(CHOOSE text \in storage : TRUE)
         loads == storage # {} /\ ~data.threw
                    /\ Truthy(data.savedRows) /\ Truthy(data.savedItems)
         clone == StructuredClone(DEFAULT_STATE)
     IN  /\ defaultState' = DEFAULT_STATE
         /\ rows' = IF loads THEN data.savedRows.v ELSE clone.copy.rows
         /\ items' = IF loads THEN data.savedItems.v ELSE clone.copy.items
         /\ shared' = IF loads THEN {} ELSE clone.shared
         /\ threw' = (loads /\ RenderThrows(data.savedRows))
         /\ storage' = IF storage # {} /\ data.threw THEN {} ELSE storage
         /\ saved' = IF storage # {} /\ data.threw THEN {} ELSE saved
         /\ imported' = IF loads
                        THEN UNION {Range(data.savedItems.v[c]) : c \in DOMAIN data.savedItems.v}
                        ELSE {}
         /\ last' = Did(IF loads THEN "load" ELSE "load:default")
  /\ activeId' = Null
  /\ active' = NoDrag
  /\ pending' = {}
  /\ reading' = {}
  /\ UNCHANGED <<nItems, nRows, tierOps, nUploads>>

\* The IMAGE branch of handleDragEnd when the store its updater is applied to
\* (prev) is not the store of the render the handler closes over (its):
\* findContainer and the indexes of line 258-259 read its, the updaters prev.
ItemDropOnto(rws, its, prev, act, over) ==
  LET activeContainer == findContainer(rws, its, act.id)
      overContainer == findContainer(rws, its, over.id)
      same == [threw |-> FALSE, items |-> prev, kind |-> "dragEnd:same"]
      fail == [threw |-> TRUE, items |-> prev, kind |-> "dragEnd:threw"]
  IN  IF activeContainer = Null \/ overContainer = Null \/ activeContainer = overContainer
      THEN IF activeContainer # Null
           THEN IF activeContainer \notin DOMAIN its
                THEN fail
                ELSE LET activeIndex == FindIndex(its[activeContainer], act.id)
                         overIndex == FindIndex(its[activeContainer], over.id)
                     IN  IF activeIndex # -1 /\ overIndex # -1 /\ activeIndex # overIndex
                         THEN IF activeContainer \notin DOMAIN prev
                              THEN fail
                              ELSE [threw |-> FALSE,
                                    items |-> MoveWithinItems(prev, activeContainer, activeIndex, overIndex),
                                    kind |-> "dragEnd:within"]
                         ELSE same
           ELSE same
      ELSE IF activeContainer \notin DOMAIN prev \/ overContainer \notin DOMAIN prev
           THEN fail
           ELSE [threw |-> FALSE,
                 items |-> MoveAcrossItems(prev, activeContainer, overContainer, act.id, over.id,
                                           findContainer(rws, its, over.id) = over.id),
                 kind |-> IF findContainer(rws, its, over.id) = over.id
                          THEN "dragEnd:onContainer" ELSE "dragEnd:onItem"]

\* the render reads r.id of every tier and i.id of every item it shows, which
\* throws on undefined
RenderThrowsOnUndefined(rws, its) ==
  \/ UndefinedRow \in Range(rws)
  \/ Undefined \in RenderedImages(rws, its)

\* reader.onload and then handleDragEnd, both run before React renders again
\* (the render of updates made outside a React event handler is scheduled, not
\* synchronous): setRows(savedRows) and setItems(savedItems) are queued first,
\* the handler of the last render queues its updaters behind them.
RestoreThenDragEnd(text, over) ==
  /\ ~threw
  /\ active # NoDrag
  /\ text \in reading
  /\ LET data == JSONparse(text) IN
       /\ ~data.threw /\ Truthy(data.savedRows) /\ Truthy(data.savedItems)
       /\ reading' = reading \ {text}
       /\ imported' = UNION {Range(data.savedItems.v[c]) : c \in DOMAIN data.savedItems.v}
       /\ shared' = {}
       /\ IF RenderThrows(data.savedRows)
          THEN /\ rows' = data.savedRows.v
               /\ items' = data.savedItems.v
               /\ threw' = TRUE
               /\ last' = Did("restore")
               /\ UNCHANGED <<activeId, tierOps>>
          ELSE IF over = NoOver
          THEN /\ rows' = data.savedRows.v
               /\ items' = data.savedItems.v
               /\ activeId' = Null
               /\ last' = Did("restore+dragEnd:none")
               /\ UNCHANGED <<threw, tierOps>>
          ELSE IF IsRowDrag(active, over)
          THEN /\ items' = data.savedItems.v
               /\ activeId' = Null
               /\ IF active.id # over.id
                  THEN /\ TierOpAllowed
                       /\ rows' = ReorderRows(data.savedRows.v, active.id, over.id)
                       /\ tierOps' = tierOps + 1
                       /\ last' = Did("restore+dragEnd:rows")
                  ELSE /\ rows' = data.savedRows.v
                       /\ last' = Did("restore+dragEnd:same")
                       /\ UNCHANGED tierOps
               /\ threw' = RenderThrowsOnUndefined(rows', items')
          ELSE IF active.type = IMAGE
          THEN LET drop == ItemDropOnto(rows, items, data.savedItems.v, active, over) IN
                 /\ rows' = data.savedRows.v
                 /\ items' = drop.items
                 /\ threw' = (drop.threw \/ RenderThrowsOnUndefined(rows', items'))
                 /\ activeId' = IF drop.threw THEN activeId ELSE Null
                 /\ last' = Did("restore+" \o drop.kind)
                 /\ UNCHANGED tierOps
          ELSE /\ rows' = data.savedRows.v
               /\ items' = data.savedItems.v
               /\ activeId' = Null
               /\ last' = Did("restore+dragEnd:ignored")
               /\ UNCHANGED <<threw, tierOps>>
  /\ active' = NoDrag
  /\ UNCHANGED <<pending, nItems, nRows, storage, saved, defaultState, nUploads>>

\* A backup file edited by hand: it follows the snapshot schema, and one of
\* its tiers carries the id of the bank.
HandEditedBackup ==
  [valid |-> TRUE,
   savedRows |-> [t |-> "array",
                  v |-> << [id |-> "S", label |-> "S", color |-> "#ff7f7f"],
                           [id |-> UNRANKED_ID, label |-> "Bank", color |-> "#4a4a4a"] >>],
   savedItems |-> [t |-> "object",
                   v |-> [k \in {"S", UNRANKED_ID} |->
                            IF k = UNRANKED_ID THEN <<"bk-1">> ELSE << >>]]]

\* Backup files whose savedItems does not have a key for every container:
\* tier A has none / the bank has none
MissingTierKey ==
  [valid |-> TRUE,
   savedRows |-> [t |-> "array",
                  v |-> << [id |-> "S", label |-> "S", color |-> "#ff7f7f"],
                           [id |-> "A", label |-> "A", color |-> "#ffbf7f"] >>],
   savedItems |-> [t |-> "object",
                   v |-> [k \in {"S", UNRANKED_ID} |->
                            IF k = UNRANKED_ID THEN <<"bk-2">> ELSE <<"bk-1">>]]]

MissingBankKey ==
  [valid |-> TRUE,
   savedRows |-> [t |-> "array",
                  v |-> << [id |-> "S", label |-> "S", color |-> "#ff7f7f"] >>],
   savedItems |-> [t |-> "object", v |-> [k \in {"S"} |-> <<"bk-1">>]]]

\* Files that are not snapshots: a text that is not JSON, {"savedItems": {...}},
\* {"savedRows": [...]}, {"savedRows": {}, "savedItems": {...}} and
\* {"savedRows": [...], "savedItems": true}
NotJSON == [valid |-> FALSE, savedRows |-> NoMember, savedItems |-> NoMember]
NoSavedRows == [HandEditedBackup EXCEPT !.savedRows = NoMember]
NoSavedItems == [HandEditedBackup EXCEPT !.savedItems = NoMember]
RowsNotArray == [HandEditedBackup EXCEPT !.savedRows = [t |-> "object", v |-> << >>]]
ItemsNotObject == [HandEditedBackup EXCEPT !.savedItems = [t |-> "true", v |-> << >>]]

\* A backup written by handleDownload in an earlier session: one tier
OneTierBackup ==
  [valid |-> TRUE,
   savedRows |-> [t |-> "array",
                  v |-> << [id |-> "S", label |-> "S", color |-> "#ff7f7f"] >>],
   savedItems |-> [t |-> "object",
                   v |-> [k \in {"S", UNRANKED_ID} |->
                            IF k = UNRANKED_ID THEN <<"bk-2">> ELSE <<"bk-1">>]]]

WellFormedFiles == {OneTierBackup}

\* Another one: two tiers, an item in each container
TwoTierBackup ==
  [valid |-> TRUE,
   savedRows |-> [t |-> "array",
                  v |-> << [id |-> "new-row-a", label |-> "Good", color |-> "#7fff7f"],
                           [id |-> "new-row-b", label |-> "Bad", color |-> "#ff7f7f"] >>],
   savedItems |-> [t |-> "object",
                   v |-> [k \in {"new-row-a", "new-row-b", UNRANKED_ID} |->
                            IF k = UNRANKED_ID THEN <<"bk-3">>
                            ELSE IF k = "new-row-a" THEN <<"bk-1">> ELSE <<"bk-2">>]]]
IncompleteFiles == {MissingTierKey, MissingBankKey}
MalformedFiles == {NotJSON, NoSavedRows, NoSavedItems, RowsNotArray, ItemsNotObject}
BackupFiles == {HandEditedBackup, TwoTierBackup} \cup WellFormedFiles \cup IncompleteFiles \cup MalformedFiles

\* handleUpload: a file is chosen, window.confirm, reader.readAsText(file)
HandleUpload(file, confirmed) ==
  /\ Idle
  /\ nUploads < MaxUploads
  /\ nUploads' = nUploads + 1
  /\ reading' = IF confirmed THEN reading \cup {file} ELSE reading
  /\ last' = Did(IF confirmed THEN "upload" ELSE "upload:declined")
  /\ UNCHANGED <<rows, items, activeId, active, pending, nItems, nRows, storage, saved, defaultState, shared,
                 threw, imported, tierOps>>

\* reader.onload: data = JSON.parse(text); data && data.savedRows &&
\* data.savedItems; setRows, setItems and the render that follows; the catch
\* block alerts and changes nothing
ReaderOnload(text) ==
  /\ ~threw
  /\ text \in reading
  /\ reading' = reading \ {text}
  /\ LET data == JSONparse(text) IN
       IF ~data.threw /\ Truthy(data.savedRows) /\ Truthy(data.savedItems)
       THEN /\ rows' = data.savedRows.v
            /\ items' = data.savedItems.v
            /\ shared' = {}
            /\ threw' = RenderThrows(data.savedRows)
            /\ imported' = UNION {Range(data.savedItems.v[c]) : c \in DOMAIN data.savedItems.v}
            /\ last' = Did("restore")
       ELSE /\ UNCHANGED <<rows, items, shared, threw, imported>>
            /\ last' = Did("restore:failed")
  /\ UNCHANGED <<activeId, active, pending, nItems, nRows, storage, saved, defaultState, tierOps, nUploads>>

(* --------------------------- specifications --------------------------- *)
Import == \E n \in 1..MaxBatch : HandleImageUpload(n)
ImportDone == \E b \in pending : ImageUploadDone(b)
AddTier == HandleAddRow
EditLabel == \E i \in 1..Len(rows) : \E l \in NewLabels : HandleLabelChange(i, l)
EditColor == \E i \in 1..Len(rows) : \E c \in NewColors : HandleColorChange(i, c)
DeleteTier == \E i \in 1..Len(rows) : ClickDelete(i)
DragStart == \E a \in Draggables(rows, items) : HandleDragStart(a)
DragEnd == \E o \in Droppables(rows, items) \cup {NoOver} : HandleDragEnd(o)
Reset == \E c \in BOOLEAN : ResetState(c)
DragEndNoData == HandleDragEndNoData

Next ==
  \/ Import
  \/ ImportDone
  \/ AddTier
  \/ EditLabel
  \/ EditColor
  \/ DeleteTier
  \/ DragStart
  \/ DragEnd

\* the mutations of the engine, from the default state
Spec == Init /\ [][Next]_vars

\* the same with the Reset button
NextReset == Next \/ Reset
SpecReset == Init /\ [][NextReset]_vars

\* the same with Upload Backup
Upload == \E f \in BackupFiles : \E c \in BOOLEAN : HandleUpload(f, c)
UploadLoaded == \E f \in reading : ReaderOnload(f)
NextUpload ==
  \/ Upload
  \/ UploadLoaded
  \/ AddTier
  \/ EditLabel
  \/ EditColor
  \/ DeleteTier
  \/ DragStart
  \/ DragEnd
  \/ DragEndNoData
SpecUpload == Init /\ [][NextUpload]_vars

\* Save Progress, reloading the page, and backups written by the program
Save == HandleSave
Reload == PageLoad
UploadSnapshot == \E f \in WellFormedFiles : \E c \in BOOLEAN : HandleUpload(f, c)
NextSnapshot ==
  \/ UploadSnapshot
  \/ UploadLoaded
  \/ Save
  \/ Reload
  \/ AddTier
  \/ EditLabel
  \/ EditColor
  \/ DeleteTier
  \/ DragStart
  \/ DragEnd
  \/ DragEndNoData
SpecSnapshot == Init /\ [][NextSnapshot]_vars

\* backups whose savedItems lacks container keys, then imports, tier deletes
\* and drags
UploadIncomplete == \E f \in IncompleteFiles : \E c \in BOOLEAN : HandleUpload(f, c)
NextIncomplete ==
  \/ UploadIncomplete
  \/ UploadLoaded
  \/ Import
  \/ ImportDone
  \/ DeleteTier
  \/ DragStart
  \/ DragEnd
  \/ DragEndNoData
SpecIncomplete == Init /\ [][NextIncomplete]_vars

\* imports, drags, and restores of program-written backups that may complete
\* during a gesture, its dragEnd arriving before or after the render
StaleDragEnd ==
  \E f \in reading : \E o \in Droppables(rows, items) \cup {NoOver} : RestoreThenDragEnd(f, o)
NextStale ==
  \/ Import
  \/ ImportDone
  \/ UploadSnapshot
  \/ UploadLoaded
  \/ DragStart
  \/ DragEnd
  \/ DragEndNoData
  \/ StaleDragEnd
SpecStale == Init /\ [][NextStale]_vars

(* ------------------------------- claims ------------------------------- *)
\* the positions at which item i occurs in the store
Positions(its, i) ==
  {cp \in UNION {{<<c, p>> : p \in 1..Len(its[c])} : c \in DOMAIN its} :
     its[cp[1]][cp[2]] = i}

\* C1 (exhaustive partition): after any sequence of imports, tier adds, edits
\* and deletes, and drag gestures, every imported item occurs in the store at
\* exactly one position of exactly one container, and the store holds nothing
\* but imported items.
C1_ExhaustivePartition ==
  /\ \A i \in imported : Cardinality(Positions(items, i)) = 1
  /\ \A c \in DOMAIN items : Range(items[c]) \subseteq imported

\* three imported items, the last gesture having moved one onto an item of
\* another container
C1_Witness ==
  /\ last.op = "dragEnd:onItem"
  /\ Cardinality(imported) = 3

\* C2 (referential integrity): the keys of the store are exactly UNRANKED and
\* the ids of the tiers of the registry, in every state reachable by tier adds,
\* deletes and reorders, item drags, imports and resets.
C2_ReferentialIntegrity == DOMAIN items = RowIds(rows) \cup {UNRANKED_ID}

\* a tier has just been added
C2_Witness ==
  /\ last.op = "addTier"
  /\ NewRowId(1) \in RowIds(rows)
  /\ Len(rows) = 6

\* C3 (tier-delete migration): deleting a tier T of the registry appends T's
\* items, in order, to the end of UNRANKED, removes T from the registry without
\* reordering the other tiers, and removes T's key from the store.
C3_TierDeleteMigration ==
  [][last'.op = "deleteTier" =>
       \E k \in 1..Len(rows) :
         LET T == rows[k].id IN
           /\ rows' = SubSeq(rows, 1, k - 1) \o SubSeq(rows, k + 1, Len(rows))
           /\ T \notin RowIds(rows')
           /\ T \in DOMAIN items
           /\ T \notin DOMAIN items'
           /\ items'[UNRANKED_ID] = items[UNRANKED_ID] \o items[T]]_vars

\* a tier holding items was deleted while the bank held items too
C3_Witness ==
  /\ last.op = "deleteTier"
  /\ Len(last.arg) >= 1
  /\ Len(items[UNRANKED_ID]) > Len(last.arg)

\* C4 (deleteTier of UNRANKED or of an unknown id is a no-op): such a call
\* leaves the registry and the store as they were.
C4_DeleteReservedIsNoOp ==
  [][\A id \in RowIds(rows) \cup {UNRANKED_ID, "no-such-tier"} :
       (HandleDeleteRow(id) /\ (id = UNRANKED_ID \/ id \notin RowIds(rows)))
         => (rows' = rows /\ items' = items)]_vars

\* s without x; s with x put at position k (1-based); where x is in s
Without(s, x) == SelectSeq(s, LAMBDA y : y # x)
InsertAt(s, k, x) == SubSeq(s, 1, k - 1) \o <<x>> \o SubSeq(s, k, Len(s))
PosOf(s, x) == CHOOSE p \in 1..Len(s) : s[p] = x
RowPos(rws, id) == CHOOSE p \in 1..Len(rws) : rws[p].id = id
\* whether some container holds item i, and the container that does
Held(its, i) == \E c \in DOMAIN its : i \in Range(its[c])
HolderOf(its, i) == CHOOSE c \in DOMAIN its : i \in Range(its[c])

\* C5 (within-container reorder): dropping item a on another item o of a's own
\* container takes a out and puts it at the index o had, leaving the other
\* items in their order and every other container alone; dropping a on itself
\* or on its own container changes nothing.
C5_WithinContainerReorder ==
  [][(active.type = IMAGE /\ Held(items, active.id)) =>
       \A o \in Droppables(rows, items) :
         (/\ o.id \in Range(items[HolderOf(items, active.id)]) \cup {HolderOf(items, active.id)}
          /\ HandleDragEnd(o)) =>
           LET a == active.id
               c == HolderOf(items, a)
               s == items[c]
           IN  /\ (o.id \in Range(s) /\ o.id # a) =>
                    /\ items' = [items EXCEPT ![c] = InsertAt(Without(s, a), PosOf(s, o.id), a)]
                    /\ items'[c][PosOf(s, o.id)] = a
                    /\ Without(items'[c], a) = Without(s, a)
               /\ (o.id = a \/ o.id = c) => items' = items]_vars

\* an item was just moved inside a container of three
C5_Witness ==
  /\ last.op = "dragEnd:within"
  /\ \E c \in DOMAIN items : Len(items[c]) = 3

\* C6 (cross-container move onto an item): dropping item a of container S on
\* item o of another container D takes a out of S and puts it in D right before
\* o; the other items of S and D keep their order and o stays in D.
C6_MoveOntoItem ==
  [][(active.type = IMAGE /\ Held(items, active.id)) =>
       \A o \in Droppables(rows, items) :
         (/\ Held(items, o.id)
          /\ HolderOf(items, o.id) # HolderOf(items, active.id)
          /\ HandleDragEnd(o))
           => LET a == active.id
                  S == HolderOf(items, a)
                  D == HolderOf(items, o.id)
                  p == PosOf(items[D], o.id)
              IN  /\ items' = [items EXCEPT ![S] = Without(items[S], a),
                                            ![D] = InsertAt(items[D], p, a)]
                  /\ items'[D][p] = a
                  /\ items'[D][p + 1] = o.id
                  /\ Without(items'[D], a) = items[D]
                  /\ a \notin Range(items'[S])]_vars

\* an item was just dropped on an item of a tier, which now holds two, while
\* the bank keeps one
C6_Witness ==
  /\ last.op = "dragEnd:onItem"
  /\ \E c \in RowIds(rows) : Len(items[c]) = 2
  /\ Len(items[UNRANKED_ID]) = 1

\* C7 (cross-container move onto a container body): dropping item a of
\* container S on a tier or on the bank, D # S, takes a out of S and makes it
\* the last element of D, whether D was empty or not.
C7_MoveOntoContainer ==
  [][(active.type = IMAGE /\ Held(items, active.id)) =>
       \A o \in Droppables(rows, items) :
         (/\ o.id \in RowIds(rows) \cup {UNRANKED_ID}
          /\ o.id # HolderOf(items, active.id)
          /\ HandleDragEnd(o))
           => LET S == HolderOf(items, active.id) IN
                /\ items' = [items EXCEPT ![S] = Without(items[S], active.id),
                                          ![o.id] = Append(items[o.id], active.id)]
                /\ rows' = rows]_vars

\* an item was just dropped on the body of a container that already held items
C7_Witness ==
  /\ last.op = "dragEnd:onContainer"
  /\ \E c \in DOMAIN items : Len(items[c]) >= 2

\* C8 (tier reorder): dropping tier a on another tier o moves a to the index o
\* had, keeps the order of the other tiers and leaves the store alone;
\* dropping a tier on itself leaves the registry alone.
C8_TierReorder ==
  [][(active.type = ROW /\ active.id \in RowIds(rows)) =>
       \A o \in Droppables(rows, items) :
         (o.type = ROW /\ o.id \in RowIds(rows) /\ HandleDragEnd(o))
           => /\ items' = items
              /\ IF active.id = o.id
                 THEN rows' = rows
                 ELSE LET moved == rows[RowPos(rows, active.id)]
                          others == SelectSeq(rows, LAMBDA r : r.id # active.id)
                      IN  /\ rows' = InsertAt(others, RowPos(rows, o.id), moved)
                          /\ rows'[RowPos(rows, o.id)] = moved
                          /\ SelectSeq(rows', LAMBDA r : r.id # active.id) = others]_vars

\* the last tier was just dragged to the top
C8_Witness ==
  /\ last.op = "dragEnd:rows"
  /\ rows[1].id = "D"
  /\ rows[2].id = "S"

\* C9 (cross-kind drags are ignored): dropping a tier on an image or on the
\* bank changes neither the registry nor the store.
C9_CrossKindIgnored ==
  [][active.type = ROW =>
       \A o \in Droppables(rows, items) :
         (o.type # ROW /\ HandleDragEnd(o)) => (rows' = rows /\ items' = items)]_vars

\* a tier was just dropped on something that is not a tier, with images around
C9_Witness ==
  /\ last.op = "dragEnd:ignored"
  /\ Cardinality(imported) >= 1

\* C10 (an abandoned gesture applies nothing): dragStart changes neither the
\* registry nor the store, and neither does a dragEnd without an over target.
C10_AbandonedGesture ==
  [][((active = NoDrag /\ active' # NoDrag) \/ (active # NoDrag /\ HandleDragEnd(NoOver)))
       => (rows' = rows /\ items' = items)]_vars

\* a gesture on an item placed in a tier was just abandoned
C10_Witness ==
  /\ last.op = "dragEnd:none"
  /\ \E c \in RowIds(rows) : Len(items[c]) >= 1

\* C11 (every dragEnd returns to Idle): a dragEnd clears the currently-dragged
\* reference on every path, and the reference is set only while a gesture is
\* in progress.
C11_DragEndClearsActiveId ==
  [][/\ (active # NoDrag /\ active' = NoDrag) => activeId' = Null
     /\ activeId' # Null => active' # NoDrag]_vars

C13_MalformedRejected ==
  [][\A f \in reading \cap MalformedFiles :
       ReaderOnload(f) =>
         /\ last'.op = "restore:failed"
         /\ rows' = rows
         /\ items' = items
         /\ ~threw']_vars

\* the containers the page shows that have no key in the store; the items held
Missing(rws, its) == (RowIds(rws) \cup {UNRANKED_ID}) \ DOMAIN its
HeldItems(its) == UNION {Range(its[c]) : c \in DOMAIN its}

\* C14 (missing containers are treated as empty): once a snapshot is loaded in
\* which a tier or the bank has no key in savedItems, every later drop, import
\* completion and tier delete goes through without an error and without losing
\* an item.
C14_MissingContainersAreEmpty ==
  [][(Missing(rows, items) # {} /\ last'.op # "restore") =>
       /\ ~threw'
       /\ HeldItems(items) \subseteq HeldItems(items')]_vars

\* whether id is a tier, a container or an item of the state
Denotes(rws, its, id) == id \in RowIds(rws) \cup {UNRANKED_ID} \cup DOMAIN its \cup HeldItems(its)

\* C15 (unresolvable drags are no-ops): a dragEnd whose dragged id denotes no
\* tier, item or container of the current state, a restore having replaced the
\* state since dragStart, changes neither the registry nor the store and raises
\* no error, for tier drags and item drags alike.
C15_UnresolvableDragIsNoOp ==
  [][(active # NoDrag /\ ~Denotes(rows, items, active.id)) =>
       \A o \in Droppables(rows, items) \cup {NoOver} :
         (HandleDragEnd(o) \/ HandleDragEndNoData)
           => (rows' = rows /\ items' = items /\ ~threw')]_vars

\* C16 (imports complete against the current store): when the file reads of an
\* import complete, its items are appended in input order to the end of
\* UNRANKED as it is then (what happened while the reads were pending is kept)
\* and every other container is left alone; once no import is pending, every
\* item of every import is in the store, whatever the order of completion.
C16_ImportAppendsToCurrentBank ==
  [][/\ \A b \in pending :
          ImageUploadDone(b) =>
            /\ items' = [items EXCEPT ![UNRANKED_ID] = items[UNRANKED_ID] \o b]
            /\ rows' = rows
     /\ pending' = {} => HeldItems(items') = {ItemId(i) : i \in 1..nItems'}]_vars

\* the import started first completed last: in between, another import
\* completed and one of its items was dragged into a tier
C16_Witness ==
  /\ last.op = "importItems"
  /\ items[UNRANKED_ID] = <<ItemId(3), ItemId(1)>>
  /\ \E c \in RowIds(rows) : items[c] = <<ItemId(2)>>

\* C17 (updateTier frame): updateTier(id, label, color) gives the tier with
\* that id the new label and color and changes nothing else: the tiers keep
\* their ids and order, the other tiers their label and color, the store is
\* untouched; with an id that no tier has, nothing changes.
C17_UpdateTierFrame ==
  [][/\ last'.op = "updateTier" =>
          \A id \in RowIds(rows) :
          \A l \in NewLabels \cup {rows[i].label : i \in 1..Len(rows)} :
          \A c \in NewColors \cup {rows[i].color : i \in 1..Len(rows)} :
            HandleUpdateRow(id, l, c) =>
              /\ items' = items
              /\ Len(rows') = Len(rows)
              /\ \A i \in 1..Len(rows) :
                   /\ rows'[i].id = rows[i].id
                   /\ rows[i].id = id => (rows'[i].label = l /\ rows'[i].color = c)
                   /\ rows[i].id # id => rows'[i] = rows[i]
     /\ \A l \in NewLabels : \A c \in NewColors :
          UpdateRowRows(rows, "no-such-tier", l, c) = rows]_vars

\* the label of the third tier was just edited
C17_Witness ==
  /\ last.op = "updateTier"
  /\ Len(rows) = 5
  /\ rows[3] = [id |-> "B", label |-> "Z", color |-> "#ffff7f"]

\* C18 (moveAcross with an absent item): when the cross-container move is
\* applied to a store whose source sequence does not hold the dragged item, it
\* fails as not found: nothing leaves the source, nothing enters the
\* destination.
C18_MoveAcrossAbsentItem ==
  [][(active.type = IMAGE /\ reading # {}) =>
       \A f \in reading : \A o \in Droppables(rows, items) :
         LET S == findContainer(rows, items, active.id)
             D == findContainer(rows, items, o.id)
             prev == f.savedItems.v
         IN  (/\ S # Null /\ D # Null /\ S # D
              /\ S \in DOMAIN prev /\ D \in DOMAIN prev
              /\ active.id \notin Range(prev[S])
              /\ RestoreThenDragEnd(f, o))
               => (items'[S] = prev[S] /\ items'[D] = prev[D])]_vars

\* the containers of its other than those in named keep their key and sequence
OthersKept(its, its2, named) ==
  \A c \in DOMAIN its \ named : c \in DOMAIN its2 /\ its2[c] = its[c]

\* C19 (unrelated order is preserved): a mutation changes the sequence of no
\* container but the ones it names: source and destination for an item drag,
\* the deleted tier and UNRANKED for deleteTier, UNRANKED for importItems, none
\* for a tier reorder, addTier and updateTier.
C19_UnrelatedOrderPreserved ==
  [][/\ (active.type = IMAGE /\ Held(items, active.id)) =>
          \A o \in Droppables(rows, items) \cup {NoOver} :
            HandleDragEnd(o) =>
              OthersKept(items, items',
                         {HolderOf(items, active.id), findContainer(rows, items, o.id)})
     /\ last'.op = "deleteTier" =>
          OthersKept(items, items', {UNRANKED_ID} \cup (RowIds(rows) \ RowIds(rows')))
     /\ last'.op = "importItems" => OthersKept(items, items', {UNRANKED_ID})
     /\ last'.op \in {"addTier", "updateTier", "dragEnd:rows", "dragEnd:ignored"} =>
          OthersKept(items, items', {})]_vars

\* a tier was just deleted while two other tiers hold an item each
C19_Witness ==
  /\ last.op = "deleteTier"
  /\ Cardinality({c \in RowIds(rows) : Len(items[c]) = 1}) = 2

\* C20 (the cross-container move is side-effect free): computing the new store
\* leaves the sequences of the previous store as they were, so a second
\* evaluation of the same move on the same previous store returns the same new
\* store: the dragged item once in the destination, nothing else taken from the
\* source.  Stated for every drop of a dragged item on a target of another
\* container.
C20_MoveAcrossIsPure ==
  (active.type = IMAGE /\ Held(items, active.id)) =>
    \A o \in Droppables(rows, items) :
      LET S == findContainer(rows, items, active.id)
          D == findContainer(rows, items, o.id)
          overIsContainer == findContainer(rows, items, o.id) = o.id
          first == MoveAcrossItems(items, S, D, active.id, o.id, overIsContainer)
          prevAfter == PrevAfterMoveAcross(items, first)
          second == MoveAcrossItems(prevAfter, S, D, active.id, o.id, overIsContainer)
      IN  (S # Null /\ D # Null /\ S # D) =>
            /\ prevAfter = items
            /\ second = first
            /\ Cardinality(Positions(second, active.id)) = 1
            /\ Range(items[S]) \ {active.id} \subseteq Range(second[S])

\* C21 (reset restores the pristine default): a confirmed reset, after any
\* imports, moves into the default tiers, tier adds, edits and deletes, yields
\* the registry S, A, B, C, D with the default labels and colors and a store
\* whose keys are those five tiers and UNRANKED, all empty; no operation
\* changes the DEFAULT_STATE object; a declined reset changes neither the
\* registry, the store nor the stored document.
C21_ResetRestoresDefault ==
  [][/\ defaultState' = defaultState
     /\ last'.op = "reset" =>
          /\ rows' = << [id |-> "S", label |-> "S", color |-> "#ff7f7f"],
                        [id |-> "A", label |-> "A", color |-> "#ffbf7f"],
                        [id |-> "B", label |-> "B", color |-> "#ffff7f"],
                        [id |-> "C", label |-> "C", color |-> "#7fff7f"],
                        [id |-> "D", label |-> "D", color |-> "#7fbfff"] >>
          /\ DOMAIN items' = {"S", "A", "B", "C", "D", UNRANKED_ID}
          /\ \A k \in DOMAIN items' : items'[k] = << >>
     /\ last'.op = "reset:declined" => UNCHANGED <<rows, items, storage>>]_vars

\* a confirmed reset of a board with imported items ranked in a tier and a
\* default tier deleted
C21_Witness ==
  /\ last.op = "reset"
  /\ last.arg = <<"ranked items", "deleted tier">>
  /\ nItems >= 2
  /\ ~threw

\* ids that no tier and no item of the store carries: one never generated,
\* and those of the images whose import has not completed
UnknownIds(its) ==
  {"no-such-id"} \cup ({ItemId(n) : n \in 1..MaxItems} \ HeldItems(its))

\* C22 (container resolver): findContainer(id) is id for the bank's id and for
\* the id of every tier of the registry; for any other id it is the key of a
\* container whose sequence holds that id, and null when none does.  In every
\* state reached from the default state by imports, tier edits and drags each
\* item of the store is held by one container only, and findContainer of the
\* item is that container, never null.
C22_ContainerOf ==
  /\ \A id \in RowIds(rows) \cup {UNRANKED_ID} : findContainer(rows, items, id) = id
  /\ \A id \in UnknownIds(items) : findContainer(rows, items, id) = Null
  /\ \A c \in DOMAIN items : \A i \in 1..Len(items[c]) :
        /\ items[c][i] \notin RowIds(rows) \cup {UNRANKED_ID}
        /\ \A d \in DOMAIN items \ {c} : items[c][i] \notin Range(items[d])
        /\ findContainer(rows, items, items[c][i]) = c
        /\ findContainer(rows, items, items[c][i]) # Null

\* an item was dropped onto an item of a tier: the tier holds two items, the
\* bank one, and findContainer tells them apart
C22_Witness ==
  /\ last.op = "dragEnd:onItem"
  /\ items[UNRANKED_ID] # << >>
  /\ \E c \in RowIds(rows) :
        /\ Len(items[c]) = 2
        /\ findContainer(rows, items, items[c][2]) = c
        /\ findContainer(rows, items, items[UNRANKED_ID][1]) = UNRANKED_ID

====
